---- MODULE Spec2Model ----
(***************************************************************************)
(* Model of CommandQueryPlugin (src/main.py): the command index builder,   *)
(* the count-based cache invalidation and the tiered fuzzy search.         *)
(*                                                                         *)
(* Strings are sequences of one-character strings, so that lower(),        *)
(* strip(), startswith() and the substring test are computed, not assumed. *)
(* A dict is a sequence of [key, val] entries in insertion order: writing  *)
(* an existing key replaces the value in place, as a Python dict does.     *)
(***************************************************************************)
EXTENDS Integers, Sequences, FiniteSets, TLC

\* ------------------------------------------------------------------------
\* Bounds of the model
\* ------------------------------------------------------------------------
\* longest handler registry drawn by InitSearch
MaxHandlers == 2
\* largest limit passed to _search_similar_commands by SearchSimilarCommands
MaxLimit == 3
\* the threads that call the operations at the same time
MaxThreads == 2
\* the loads and unloads while the threads run
MaxChanges == 1

\* ------------------------------------------------------------------------
\* Strings
\* ------------------------------------------------------------------------
\* str.lower() on one character
LowerChar(c) ==
  CASE c = "A" -> "a"
    [] c = "B" -> "b"
    [] c = "P" -> "p"
    [] OTHER -> c

\* str.lower()
Lower(s) == [i \in 1..Len(s) |-> LowerChar(s[i])]

\* str.strip(): drop the blanks at both ends
RECURSIVE LStrip(_)
LStrip(s) == IF s # <<>> /\ Head(s) = " " THEN LStrip(Tail(s)) ELSE s

RECURSIVE RStrip(_)
RStrip(s) ==
  IF s # <<>> /\ s[Len(s)] = " " THEN RStrip(SubSeq(s, 1, Len(s) - 1)) ELSE s

Strip(s) == RStrip(LStrip(s))

\* str.startswith("/")
StartsWithSlash(s) == s # <<>> /\ Head(s) = "/"

\* the Python test  k in s  on strings
Contains(s, k) ==
  \E i \in 1..(Len(s) - Len(k) + 1) : SubSeq(s, i, i + Len(k) - 1) = k

\* "/" + s when s does not start with "/"
EnsureSlash(s) == IF StartsWithSlash(s) THEN s ELSE <<"/">> \o s

\* ------------------------------------------------------------------------
\* Values
\* ------------------------------------------------------------------------
\* None for an optional string (a command name is never empty)
Absent == <<>>

\* handler.desc or "无描述"
NoDescription == <<"无", "描", "述">>

\* the plugin names skipped by the builder
DenyList ==
  { <<"a","s","t","r","b","o","t">>,
    <<"a","s","t","r","b","o","t","_","p","l","u","g","i","n","_",
      "c","o","m","m","a","n","d","_","q","u","e","r","y">>,
    <<"a","s","t","r","b","o","t","-","r","e","m","i","n","d","e","r">> }

\* Option values: None is <<>>, a present value x is <<x>>
None == <<>>
Some(x) == <<x>>

\* ------------------------------------------------------------------------
\* dict in insertion order
\* ------------------------------------------------------------------------
HasKey(d, k) == \E i \in 1..Len(d) : d[i].key = k

KeyPos(d, k) == CHOOSE i \in 1..Len(d) : d[i].key = k

\* d[k]
Get(d, k) == d[KeyPos(d, k)].val

\* d[k] = v
Put(d, k, v) ==
  IF HasKey(d, k)
  THEN [d EXCEPT ![KeyPos(d, k)] = [key |-> k, val |-> v]]
  ELSE Append(d, [key |-> k, val |-> v])

\* d.values()
Values(d) == [i \in 1..Len(d) |-> d[i].val]

\* x in lst
InList(lst, x) == \E i \in 1..Len(lst) : lst[i] = x

\* ------------------------------------------------------------------------
\* Index builder
\* ------------------------------------------------------------------------
\* _build_handler_index: the registry partitioned by module path;
\* handler_index.get(module_path, [])
BuildHandlerIndex(registry) ==
  [m \in {registry[i].handler_module_path : i \in 1..Len(registry)} |->
     SelectSeq(registry, LAMBDA h : h.handler_module_path = m)]

HandlersOf(handler_index, module_path) ==
  IF module_path \in DOMAIN handler_index THEN handler_index[module_path]
  ELSE <<>>

\* the filter loop of one handler: the first CommandFilter or
\* CommandGroupFilter decides the command name and the aliases
\* (an alias set is taken in the order list() iterates it, which is the
\* same at every call as long as the set is not modified: the alias field
\* of a filter is that order)
RECURSIVE FindCommand(_)
FindCommand(event_filters) ==
  IF event_filters = <<>> THEN [command_name |-> Absent, aliases |-> <<>>]
  ELSE LET f == Head(event_filters) IN
    CASE f.kind = "CommandFilter" ->
           [command_name |-> f.command_name, aliases |-> f.alias]
      [] f.kind = "CommandGroupFilter" ->
           [command_name |-> f.group_name, aliases |-> <<>>]
      [] OTHER -> FindCommand(Tail(event_filters))

\* the loop over the aliases of one command
RECURSIVE AddAliases(_, _, _, _)
AddAliases(commands_dict, aliases, command_info, command_name) ==
  IF aliases = <<>> THEN commands_dict
  ELSE LET alias == EnsureSlash(Head(aliases)) IN
    AddAliases(
      Put(commands_dict, alias,
          [command_info EXCEPT !.command = alias,
                               !.is_alias_of = command_name]),
      Tail(aliases), command_info, command_name)

\* the body of the loop over the handlers of one plugin
AddHandler(commands_dict, handler, plugin_name) ==
  LET found == FindCommand(handler.event_filters)
      description == IF handler.desc = <<>> THEN NoDescription
                     ELSE handler.desc
  IN IF found.command_name = Absent THEN commands_dict
     ELSE LET command_name == EnsureSlash(found.command_name)
              command_info == [command |-> command_name,
                               description |-> description,
                               plugin |-> plugin_name,
                               aliases |-> found.aliases,
                               is_alias_of |-> Absent]
          IN AddAliases(Put(commands_dict, command_name, command_info),
                        found.aliases, command_info, command_name)

RECURSIVE AddHandlers(_, _, _)
AddHandlers(commands_dict, hs, plugin_name) ==
  IF hs = <<>> THEN commands_dict
  ELSE AddHandlers(AddHandler(commands_dict, Head(hs), plugin_name),
                   Tail(hs), plugin_name)

\* the loop over the activated plugins without the tests of lines 149-153
RECURSIVE AddStarsOfAll(_, _, _)
AddStarsOfAll(commands_dict, all_stars, handler_index) ==
  IF all_stars = <<>> THEN commands_dict
  ELSE LET star == Head(all_stars) IN
    AddStarsOfAll(
      AddHandlers(commands_dict,
                  HandlersOf(handler_index, star.module_path),
                  star.name),
      Tail(all_stars), handler_index)

\* the loop over the activated plugins
RECURSIVE AddStars(_, _, _)
AddStars(commands_dict, all_stars, handler_index) ==
  IF all_stars = <<>> THEN commands_dict
  ELSE LET star == Head(all_stars) IN
    IF star.name \in DenyList \/ star.module_path = ""
    THEN AddStars(commands_dict, Tail(all_stars), handler_index)
    ELSE AddStars(
           AddHandlers(commands_dict,
                       HandlersOf(handler_index, star.module_path),
                       star.name),
           Tail(all_stars), handler_index)

\* the index built from the activated plugins and the handler registry
BuildCommandsDict(all_stars, registry) ==
  AddStars(<<>>, all_stars, BuildHandlerIndex(registry))

\* [star for star in all_stars if star.activated]
Activated(all_stars) == SelectSeq(all_stars, LAMBDA s : s.activated)

\* ------------------------------------------------------------------------
\* Cache and invalidation
\* ------------------------------------------------------------------------
\* len([star for star in all_stars if star.activated])
ActivatedCount(all_stars) == Len(Activated(all_stars))

\* _should_refresh_cache refreshing only when the count has grown
ShouldRefreshCacheOnGrowth(last, all_stars, listing_fails) ==
  IF listing_fails THEN [refresh |-> FALSE, last |-> last]
  ELSE LET current_count == Len(SelectSeq(all_stars, LAMBDA s : s.activated))
       IN IF current_count > last
          THEN [refresh |-> TRUE, last |-> current_count]
          ELSE [refresh |-> FALSE, last |-> last]

\* _should_refresh_cache asking for a rebuild when get_all_stars() raises
ShouldRefreshCacheOnFailure(last, all_stars, listing_fails) ==
  IF listing_fails THEN [refresh |-> TRUE, last |-> last]
  ELSE LET current_count == Len(SelectSeq(all_stars, LAMBDA s : s.activated))
       IN IF current_count # last
          THEN [refresh |-> TRUE, last |-> current_count]
          ELSE [refresh |-> FALSE, last |-> last]

\* _should_refresh_cache: listing_fails is the outcome of get_all_stars().
\* The result carries the new value of _last_star_count.
ShouldRefreshCache(last, all_stars, listing_fails) ==
  IF listing_fails THEN [refresh |-> FALSE, last |-> last]
  ELSE LET current_count == ActivatedCount(all_stars) IN
    IF current_count # last
    THEN [refresh |-> TRUE, last |-> current_count]
    ELSE [refresh |-> FALSE, last |-> last]

\* The faults one call of _get_all_commands can meet:
\*   check - get_all_stars() raises inside _should_refresh_cache
\*   list  - get_all_stars() raises in the rebuild
\*   scan  - the scan of the handler registry raises in the rebuild
Faults == [check : BOOLEAN, list : BOOLEAN, scan : BOOLEAN]

NoFault == [check |-> FALSE, list |-> FALSE, scan |-> FALSE]

\* _get_all_commands filling the dict it had cached instead of a new one
GetAllCommandsMerging(cache, last, all_stars, registry, fault) ==
  LET checked == cache # None
      sr == IF checked THEN ShouldRefreshCache(last, all_stars, fault.check)
            ELSE [refresh |-> TRUE, last |-> last]
      base == [cache |-> None, last |-> sr.last, ret |-> <<>>,
               raised |-> FALSE, rebuilt |-> TRUE, scanned |-> FALSE,
               complete |-> FALSE,
               check_failed |-> checked /\ fault.check,
               list_failed |-> FALSE]
  IN IF checked /\ ~sr.refresh
     THEN [base EXCEPT !.cache = cache, !.ret = cache[1], !.rebuilt = FALSE]
     ELSE IF fault.list
     THEN [base EXCEPT !.list_failed = TRUE]
     ELSE IF Activated(all_stars) = <<>>
     THEN [base EXCEPT !.complete = TRUE]
     ELSE IF fault.scan
     THEN [base EXCEPT !.raised = TRUE, !.scanned = TRUE]
     ELSE LET commands_dict ==
                AddStars(IF checked THEN cache[1] ELSE <<>>,
                         Activated(all_stars), BuildHandlerIndex(registry))
          IN [base EXCEPT !.cache = Some(commands_dict),
                          !.ret = commands_dict, !.scanned = TRUE,
                          !.complete = TRUE]

\* _get_all_commands on the state (cache, last): the state it leaves, the
\* value it returns (raised: the exception leaves the method instead),
\* whether it went past the cache test into the rebuild, whether the rebuild
\* reached the scan of the handler registry, whether it ran to its end, and
\* which call of get_all_stars() failed.
GetAllCommands(cache, last, all_stars, registry, fault) ==
  LET checked == cache # None
      sr == IF checked THEN ShouldRefreshCache(last, all_stars, fault.check)
            ELSE [refresh |-> TRUE, last |-> last]
      base == [cache |-> None, last |-> sr.last, ret |-> <<>>,
               raised |-> FALSE, rebuilt |-> TRUE, scanned |-> FALSE,
               complete |-> FALSE,
               check_failed |-> checked /\ fault.check,
               list_failed |-> FALSE]
  IN IF checked /\ ~sr.refresh
     THEN [base EXCEPT !.cache = cache, !.ret = cache[1], !.rebuilt = FALSE]
     ELSE IF fault.list
     THEN [base EXCEPT !.list_failed = TRUE]
     ELSE IF Activated(all_stars) = <<>>
     THEN [base EXCEPT !.complete = TRUE]
     ELSE IF fault.scan
     THEN [base EXCEPT !.raised = TRUE, !.scanned = TRUE]
     ELSE LET commands_dict ==
                BuildCommandsDict(Activated(all_stars), registry)
          IN [base EXCEPT !.cache = Some(commands_dict),
                          !.ret = commands_dict, !.scanned = TRUE,
                          !.complete = TRUE]

\* the outcomes of one call of _get_all_commands, over all faults
Outcomes(cache, last, all_stars, registry) ==
  { GetAllCommands(cache, last, all_stars, registry, fault) :
      fault \in Faults }

\* ------------------------------------------------------------------------
\* Fuzzy search
\* ------------------------------------------------------------------------
\* keyword.lower().strip() without a leading "/"
NormalizeKeyword(keyword) ==
  LET keyword_lower == Strip(Lower(keyword)) IN
  IF StartsWithSlash(keyword_lower) THEN Tail(keyword_lower)
  ELSE keyword_lower

\* tier 1: the lookup of "/" + keyword_lower
ExactTier(all_commands, keyword_lower) ==
  LET exact_match == <<"/">> \o keyword_lower IN
  IF HasKey(all_commands, exact_match)
  THEN <<Get(all_commands, exact_match)>> ELSE <<>>

\* tier 2 without the test  cmd_info in results
RECURSIVE NameTierRepeating(_, _, _)
NameTierRepeating(results, entries, keyword_lower) ==
  IF entries = <<>> THEN results
  ELSE LET e == Head(entries) IN
    IF Contains(Lower(e.key), keyword_lower)
    THEN NameTierRepeating(Append(results, e.val), Tail(entries),
                           keyword_lower)
    ELSE NameTierRepeating(results, Tail(entries), keyword_lower)

\* tier 2: every entry whose lower-cased key contains the keyword
RECURSIVE NameTier(_, _, _)
NameTier(results, entries, keyword_lower) ==
  IF entries = <<>> THEN results
  ELSE LET e == Head(entries) IN
    IF InList(results, e.val)
    THEN NameTier(results, Tail(entries), keyword_lower)
    ELSE IF Contains(Lower(e.key), keyword_lower)
    THEN NameTier(Append(results, e.val), Tail(entries), keyword_lower)
    ELSE NameTier(results, Tail(entries), keyword_lower)

\* the loop of tiers 3 and 4 over all_commands.values(), on one field,
\* left as soon as limit results are reached
RECURSIVE FieldLoop(_, _, _, _, _)
FieldLoop(results, infos, keyword_lower, limit, field) ==
  IF infos = <<>> THEN results
  ELSE LET cmd_info == Head(infos) IN
    IF InList(results, cmd_info)
    THEN FieldLoop(results, Tail(infos), keyword_lower, limit, field)
    ELSE LET next == IF Contains(Lower(cmd_info[field]), keyword_lower)
                     THEN Append(results, cmd_info) ELSE results
         IN IF Len(next) >= limit THEN next
            ELSE FieldLoop(next, Tail(infos), keyword_lower, limit, field)

\* tiers 3 and 4: entered only with fewer than limit results
FieldTier(results, all_commands, keyword_lower, limit, field) ==
  IF Len(results) < limit
  THEN FieldLoop(results, Values(all_commands), keyword_lower, limit, field)
  ELSE results

\* results returned without the slice
TruncateNothing(results, limit) == results

\* results[:limit]
Truncate(results, limit) ==
  SubSeq(results, 1, IF Len(results) < limit THEN Len(results) ELSE limit)

\* _search_similar_commands with the plugin tier before the description tier
SearchInPluginFirst(all_commands, keyword, limit) ==
  LET keyword_lower == NormalizeKeyword(keyword)
      r1 == ExactTier(all_commands, keyword_lower)
      r2 == NameTier(r1, all_commands, keyword_lower)
      r3 == FieldTier(r2, all_commands, keyword_lower, limit, "plugin")
      r4 == FieldTier(r3, all_commands, keyword_lower, limit, "description")
  IN Truncate(r4, limit)

\* _search_similar_commands after its call of _get_all_commands
SearchIn(all_commands, keyword, limit) ==
  LET keyword_lower == NormalizeKeyword(keyword)
      r1 == ExactTier(all_commands, keyword_lower)
      r2 == NameTier(r1, all_commands, keyword_lower)
      r3 == FieldTier(r2, all_commands, keyword_lower, limit, "description")
      r4 == FieldTier(r3, all_commands, keyword_lower, limit, "plugin")
  IN Truncate(r4, limit)

\* ------------------------------------------------------------------------
\* Results sent to the caller
\* ------------------------------------------------------------------------
\* _replace_prefix
ReplacePrefix(command, prefix) ==
  IF StartsWithSlash(command) THEN prefix \o Tail(command) ELSE command

\* one entry of clean_results in search_command
CleanResult(result, prefix) ==
  [command |-> ReplacePrefix(result.command, prefix),
   description |-> result.description,
   plugin |-> result.plugin,
   aliases |-> [i \in 1..Len(result.aliases) |->
                  ReplacePrefix(result.aliases[i], prefix)],
   is_alias_of |-> IF result.is_alias_of = Absent THEN Absent
                   ELSE ReplacePrefix(result.is_alias_of, prefix)]

\* the JSON object returned by search_command
SearchResponse(results, prefix) ==
  IF results = <<>>
  THEN [success |-> FALSE, message |-> "not_found", results |-> <<>>]
  ELSE [success |-> TRUE, message |-> "found",
        results |-> [i \in 1..Len(results) |->
                       CleanResult(results[i], prefix)]]

\* the limit search_command passes to _search_similar_commands
SearchCommandLimit == 5

\* ------------------------------------------------------------------------
\* State
\* ------------------------------------------------------------------------
VARIABLES
  all_stars,              \* context.get_all_stars(): name, module_path, activated
  star_handlers_registry, \* the handlers registered by the plugins
  command_prefix,         \* self.command_prefix
  command_cache,          \* self._command_cache: None or Some(dict)
  last_star_count,        \* self._last_star_count
  built_count,            \* number of activated plugins the cached dict was
                          \* built from (-1: nothing cached)
  last_query,             \* the last operation that reached _get_all_commands
                          \* (none, query or refresh) and the plugins it
                          \* ran with
  op,                     \* the last operation and what it returned
  threads                 \* the calls in progress when the host runs the
                          \* operations on several threads

vars == <<all_stars, star_handlers_registry, command_prefix, command_cache,
          last_star_count, built_count, last_query, op, threads>>

\* ------------------------------------------------------------------------
\* Inputs
\* ------------------------------------------------------------------------
\* the plugins known to the host, in the order get_all_stars() lists them
Stars ==
  << [name |-> <<"p","x">>, module_path |-> "m1"],
     [name |-> <<"P","y">>, module_path |-> "m2"],
     [name |-> <<"a","s","t","r","b","o","t">>, module_path |-> "m3"],
     [name |-> <<"n">>, module_path |-> ""] >>

\* the plugins of the cache specification
MainStars == SubSeq(Stars, 1, 2)

CommandFilter(name, alias) ==
  [kind |-> "CommandFilter", command_name |-> name, group_name |-> Absent,
   alias |-> alias]

CommandGroupFilter(name) ==
  [kind |-> "CommandGroupFilter", command_name |-> Absent,
   group_name |-> name, alias |-> <<>>]

OtherFilter ==
  [kind |-> "Other", command_name |-> Absent, group_name |-> Absent,
   alias |-> <<>>]

Handler(module_path, desc, event_filters) ==
  [handler_module_path |-> module_path, desc |-> desc,
   event_filters |-> event_filters]

\* the handlers a registry is drawn from
HandlerPool ==
  { Handler("m1", <<>>,
            <<CommandFilter(<<"a">>, << <<"b">>, <<"/","b","a">> >>)>>),
    Handler("m1", <<"d","A">>,
            <<CommandFilter(<<"/","A","b">>, << <<"/","B">>, <<"A","B">> >>)>>),
    Handler("m1", <<"d">>,
            <<OtherFilter, CommandFilter(<<"A">>, <<>>)>>),
    Handler("m2", <<"p","d">>, <<CommandGroupFilter(<<"b">>)>>),
    Handler("m2", <<>>,
            <<CommandFilter(<<"c">>, << <<"a">>, <<"A","a">> >>)>>),
    Handler("m2", <<"x">>, <<OtherFilter>>),
    Handler("m3", <<"z">>, <<CommandFilter(<<"z">>, <<>>)>>) }

\* all registries of at most n handlers of the pool
RECURSIVE Registries(_)
Registries(n) ==
  IF n = 0 THEN { <<>> }
  ELSE LET shorter == Registries(n - 1) IN
    shorter \cup { Append(r, h) : r \in shorter, h \in HandlerPool }

\* the registry of the cache specification
MainRegistry ==
  << Handler("m1", <<>>,
             <<CommandFilter(<<"a">>, << <<"b">> >>)>>),
     Handler("m2", <<"c","d">>, <<CommandGroupFilter(<<"c">>)>>) >>

\* the keywords of the tool search_command
Keywords == { <<>>, <<"A">>, <<"q">> }

\* the keywords of the searches over any registry
SearchKeywords ==
  { <<"a">>, <<"A">>, <<" ","/","A","b"," ">>, <<"b">>, <<"d">>,
    <<"p">>, <<"P","y">>, <<"/">>, <<"q">> }

Limits == 1..MaxLimit \cup {SearchCommandLimit}

Prefixes == { <<"/">>, <<"~">> }

\* ------------------------------------------------------------------------
\* Initial states
\* ------------------------------------------------------------------------
NoOp ==
  [kind |-> "none", arg |-> <<>>, limit |-> 0, calls |-> 0,
   rebuilt |-> FALSE, scanned |-> FALSE, incomplete |-> FALSE,
   raised |-> FALSE,
   check_failed |-> FALSE, list_failed |-> FALSE,
   cached |-> FALSE, count_differs |-> FALSE,
   changed |-> FALSE, all_commands |-> <<>>, found |-> <<>>,
   response |-> [success |-> FALSE, message |-> "none", results |-> <<>>]]

InitPlugin ==
  /\ command_cache = None
  /\ last_star_count = 0
  /\ built_count = -1
  /\ last_query = [kind |-> "none", stars |-> <<>>]
  /\ op = NoOp
  /\ threads = <<>>

\* the cache specification: any set of activated plugins, one registry
Init ==
  /\ InitPlugin
  /\ all_stars \in { [i \in 1..Len(MainStars) |->
                        [name |-> MainStars[i].name,
                         module_path |-> MainStars[i].module_path,
                         activated |-> act[i]]] :
                     act \in [1..Len(MainStars) -> BOOLEAN] }
  /\ star_handlers_registry = MainRegistry
  /\ command_prefix = <<"~">>

\* the search specification: every plugin activated, any registry
InitSearch ==
  /\ InitPlugin
  /\ all_stars = [i \in 1..Len(Stars) |->
                    [name |-> Stars[i].name,
                     module_path |-> Stars[i].module_path,
                     activated |-> TRUE]]
  /\ star_handlers_registry \in Registries(MaxHandlers)
  /\ command_prefix = <<"~">>

\* ------------------------------------------------------------------------
\* Operations
\* ------------------------------------------------------------------------
\* what a call of _get_all_commands leaves in the plugin
Publish(g) ==
  /\ command_cache' = g.cache
  /\ last_star_count' = g.last
  /\ built_count' = IF g.cache = None THEN -1
                    ELSE IF g.rebuilt THEN ActivatedCount(all_stars)
                    ELSE built_count

\* the record of an operation that reached _get_all_commands: g1 is the
\* outcome of its first call and g the outcome of its last one
Reached(kind, arg, limit, calls, g1, g, raised, found, response) ==
  /\ op' = [kind |-> kind, arg |-> arg, limit |-> limit, calls |-> calls,
            rebuilt |-> g1.rebuilt \/ g.rebuilt,
            scanned |-> g1.scanned \/ g.scanned,
            incomplete |-> \/ g1.rebuilt /\ ~g1.complete
                           \/ g.rebuilt /\ ~g.complete,
            raised |-> raised, check_failed |-> g1.check_failed,
            list_failed |-> g1.list_failed \/ g.list_failed,
            cached |-> command_cache # None,
            count_differs |-> ActivatedCount(all_stars) # last_star_count,
            changed |-> all_stars # last_query.stars,
            all_commands |-> g.ret, found |-> found,
            response |-> response]
  /\ last_query' = [kind |-> IF kind = "refresh_cache" THEN "refresh"
                             ELSE "query",
                    stars |-> all_stars]
  /\ UNCHANGED threads

\* the record of an operation that returned before _get_all_commands
Rejected(kind, arg, response) ==
  /\ op' = [NoOp EXCEPT !.kind = kind, !.arg = arg, !.response = response]
  /\ UNCHANGED <<command_cache, last_star_count, built_count, last_query,
                 threads>>

\* the host activates a plugin
Load ==
  \E i \in 1..Len(all_stars) :
    /\ ~all_stars[i].activated
    /\ all_stars' = [all_stars EXCEPT ![i].activated = TRUE]
    /\ UNCHANGED <<star_handlers_registry, command_prefix, command_cache,
                   last_star_count, built_count, last_query, op, threads>>

\* the host deactivates a plugin
Unload ==
  \E i \in 1..Len(all_stars) :
    /\ all_stars[i].activated
    /\ all_stars' = [all_stars EXCEPT ![i].activated = FALSE]
    /\ UNCHANGED <<star_handlers_registry, command_prefix, command_cache,
                   last_star_count, built_count, last_query, op, threads>>

\* the builder and _search_similar_commands applied to the registry:
\* the index of the activated plugins, searched for keyword.  The search
\* reads nothing but its arguments, so one application per registry,
\* keyword and limit covers every call: a repeated call is not explored.
ApplySearch ==
  \E keyword \in SearchKeywords, limit \in Limits :
    LET all_commands == BuildCommandsDict(Activated(all_stars),
                                          star_handlers_registry)
        found == SearchIn(all_commands, keyword, limit)
    IN /\ op.kind = "none"
       /\ op' = [NoOp EXCEPT !.kind = "search_similar", !.arg = keyword,
                             !.limit = limit, !.all_commands = all_commands,
                             !.found = found,
                             !.response = SearchResponse(found,
                                                         command_prefix)]
       /\ UNCHANGED <<all_stars, star_handlers_registry, command_prefix,
                      command_cache, last_star_count, built_count,
                      last_query, threads>>

\* the tool search_command
SearchCommand ==
  \E keyword \in Keywords :
    /\ UNCHANGED <<all_stars, star_handlers_registry, command_prefix>>
    /\ IF keyword = <<>>
       THEN Rejected("search_command", keyword,
                     [success |-> FALSE, message |-> "missing",
                      results |-> <<>>])
       ELSE \E g \in Outcomes(command_cache, last_star_count, all_stars,
                              star_handlers_registry) :
            LET found == IF g.raised THEN <<>>
                         ELSE SearchIn(g.ret, keyword, SearchCommandLimit)
            IN /\ Publish(g)
               /\ Reached("search_command", keyword, SearchCommandLimit, 1,
                          g, g, FALSE, found,
                          IF g.raised
                          THEN [success |-> FALSE, message |-> "error",
                                results |-> <<>>]
                          ELSE SearchResponse(found, command_prefix))

\* real_commands in refresh_cache
RealCommands(all_commands) ==
  SelectSeq(Values(all_commands), LAMBDA cmd : cmd.is_alias_of = Absent)

\* the command refresh_cache; an exception of the rebuild is not caught
RefreshCache ==
  \E g \in Outcomes(None, 0, all_stars, star_handlers_registry) :
    LET old_count == IF command_cache # None /\ command_cache[1] # <<>>
                     THEN Len(command_cache[1]) ELSE 0
        new_count == Len(g.ret)
        real_count == Len(RealCommands(g.ret))
    IN /\ Publish(g)
       /\ Reached("refresh_cache", <<>>, 0, 1, g, g, g.raised, <<>>,
                  [success |-> ~g.raised, message |-> "refreshed",
                   old_count |-> old_count, new_count |-> new_count,
                   real_count |-> real_count,
                   alias_count |-> new_count - real_count])
       /\ UNCHANGED <<all_stars, star_handlers_registry, command_prefix>>

\* ------------------------------------------------------------------------
\* Detail lookup
\* ------------------------------------------------------------------------
\* the cap of similar_commands in get_command_detail
SimilarLimit == 3

\* the limit get_command_detail passes to _search_similar_commands
SuggestionLimit == 3

\* the loop of similar_commands without the test that skips aliases
RECURSIVE SimilarWithAliases(_, _, _, _)
SimilarWithAliases(similar_commands, entries, plugin_name, command_name) ==
  IF entries = <<>> THEN similar_commands
  ELSE LET e == Head(entries) IN
    IF e.val.plugin = plugin_name /\ e.key # command_name
    THEN LET next == Append(similar_commands, e.key) IN
         IF Len(next) >= 3 THEN next
         ELSE SimilarWithAliases(next, Tail(entries), plugin_name,
                                 command_name)
    ELSE SimilarWithAliases(similar_commands, Tail(entries), plugin_name,
                            command_name)

\* the loop collecting the other real commands of the same plugin
RECURSIVE SimilarCommands(_, _, _, _)
SimilarCommands(similar_commands, entries, plugin_name, command_name) ==
  IF entries = <<>> THEN similar_commands
  ELSE LET e == Head(entries) IN
    IF e.val.plugin = plugin_name /\ e.key # command_name
       /\ e.val.is_alias_of = Absent
    THEN LET next == Append(similar_commands, e.key) IN
         IF Len(next) >= SimilarLimit THEN next
         ELSE SimilarCommands(next, Tail(entries), plugin_name, command_name)
    ELSE SimilarCommands(similar_commands, Tail(entries), plugin_name,
                         command_name)

\* the JSON object returned for a command found in the index
DetailResponse(all_commands, command_name, prefix) ==
  LET cmd_info == Get(all_commands, command_name)
      similar_commands ==
        SimilarCommands(<<>>, all_commands, cmd_info.plugin, command_name)
  IN [success |-> TRUE, message |-> "found",
      command |-> ReplacePrefix(cmd_info.command, prefix),
      description |-> cmd_info.description,
      plugin |-> cmd_info.plugin,
      aliases |-> [i \in 1..Len(cmd_info.aliases) |->
                     ReplacePrefix(cmd_info.aliases[i], prefix)],
      similar_commands |-> [i \in 1..Len(similar_commands) |->
                              ReplacePrefix(similar_commands[i], prefix)],
      is_alias_of |-> IF cmd_info.is_alias_of = Absent THEN Absent
                      ELSE ReplacePrefix(cmd_info.is_alias_of, prefix),
      suggestions |-> <<>>]

\* the JSON object returned for a command absent from the index
NotFoundResponse(similar) ==
  [success |-> FALSE, message |-> "not_found",
   command |-> Absent, description |-> <<>>, plugin |-> <<>>,
   aliases |-> <<>>, similar_commands |-> <<>>, is_alias_of |-> Absent,
   suggestions |-> [i \in 1..Len(similar) |-> similar[i].command]]

DetailFailure(message) ==
  [success |-> FALSE, message |-> message,
   command |-> Absent, description |-> <<>>, plugin |-> <<>>,
   aliases |-> <<>>, similar_commands |-> <<>>, is_alias_of |-> Absent,
   suggestions |-> <<>>]

CommandNames == { <<>>, <<"b">>, <<"q">> }

\* the tool get_command_detail; a command that is not found calls
\* _get_all_commands a second time, inside _search_similar_commands
GetCommandDetail ==
  \E name \in CommandNames :
    /\ UNCHANGED <<all_stars, star_handlers_registry, command_prefix>>
    /\ IF name = <<>>
       THEN Rejected("get_command_detail", name, DetailFailure("missing"))
       ELSE \E g1 \in Outcomes(command_cache, last_star_count, all_stars,
                               star_handlers_registry) :
            \E g2 \in Outcomes(g1.cache, g1.last, all_stars,
                               star_handlers_registry) :
            LET command_name == EnsureSlash(name)
                searched == ~g1.raised /\ ~HasKey(g1.ret, command_name)
                g == IF searched THEN g2 ELSE g1
                similar == IF searched /\ ~g2.raised
                           THEN SearchIn(g2.ret, command_name,
                                         SuggestionLimit)
                           ELSE <<>>
            IN /\ Publish([g EXCEPT !.rebuilt = g1.rebuilt \/ g.rebuilt])
               /\ Reached("get_command_detail", name, SuggestionLimit,
                          IF searched THEN 2 ELSE 1, g1, g, FALSE, similar,
                          IF g.raised THEN DetailFailure("error")
                          ELSE IF searched THEN NotFoundResponse(similar)
                          ELSE DetailResponse(g1.ret, command_name,
                                              command_prefix))

\* ------------------------------------------------------------------------
\* Plugin listing
\* ------------------------------------------------------------------------
\* the code point of a character
Ord(c) ==
  CASE c = " " -> 32 [] c = "-" -> 45 [] c = "/" -> 47
    [] c = "A" -> 65 [] c = "B" -> 66 [] c = "P" -> 80 [] c = "_" -> 95
    [] c = "a" -> 97 [] c = "b" -> 98 [] c = "c" -> 99 [] c = "d" -> 100
    [] c = "n" -> 110 [] c = "p" -> 112 [] c = "q" -> 113 [] c = "x" -> 120
    [] c = "y" -> 121 [] c = "z" -> 122 [] c = "~" -> 126
    [] OTHER -> 200

\* the order of Python strings
RECURSIVE StrLess(_, _)
StrLess(s, t) ==
  IF t = <<>> THEN FALSE
  ELSE IF s = <<>> THEN TRUE
  ELSE IF Ord(Head(s)) # Ord(Head(t)) THEN Ord(Head(s)) < Ord(Head(t))
  ELSE StrLess(Tail(s), Tail(t))

\* sorted(): insertion of one string into a sorted list
RECURSIVE Insert(_, _)
Insert(sorted, s) ==
  IF sorted = <<>> THEN <<s>>
  ELSE IF StrLess(s, Head(sorted)) THEN <<s>> \o sorted
  ELSE <<Head(sorted)>> \o Insert(Tail(sorted), s)

\* the list left in the order it was given
SortedAsGiven(lst) == lst

RECURSIVE Sorted(_)
Sorted(lst) ==
  IF lst = <<>> THEN <<>>
  ELSE Insert(Sorted(SubSeq(lst, 1, Len(lst) - 1)), lst[Len(lst)])

\* plugins_dict: the records without is_alias_of, grouped by plugin
RECURSIVE GroupByPlugin(_, _)
GroupByPlugin(plugins_dict, infos) ==
  IF infos = <<>> THEN plugins_dict
  ELSE LET cmd_info == Head(infos) IN
    IF cmd_info.is_alias_of # Absent
    THEN GroupByPlugin(plugins_dict, Tail(infos))
    ELSE LET old == IF HasKey(plugins_dict, cmd_info.plugin)
                    THEN Get(plugins_dict, cmd_info.plugin) ELSE <<>>
         IN GroupByPlugin(Put(plugins_dict, cmd_info.plugin,
                              Append(old, cmd_info)),
                          Tail(infos))

\* plugins_dict.keys()
Keys(d) == [i \in 1..Len(d) |-> d[i].key]

\* the last plugin whose lower-cased name contains the filter
RECURSIVE MatchPluginLast(_, _)
MatchPluginLast(pnames, plugin_name_lower) ==
  IF pnames = <<>> THEN Absent
  ELSE LET p == pnames[Len(pnames)] IN
    IF Contains(Lower(p), plugin_name_lower) THEN p
    ELSE MatchPluginLast(SubSeq(pnames, 1, Len(pnames) - 1),
                         plugin_name_lower)

\* the first plugin whose lower-cased name contains the filter
RECURSIVE MatchPlugin(_, _)
MatchPlugin(pnames, plugin_name_lower) ==
  IF pnames = <<>> THEN Absent
  ELSE IF Contains(Lower(Head(pnames)), plugin_name_lower) THEN Head(pnames)
  ELSE MatchPlugin(Tail(pnames), plugin_name_lower)

ListFailure(message, available) ==
  [success |-> FALSE, message |-> message, plugins |-> <<>>, count |-> 0,
   plugin |-> Absent, command_count |-> 0, commands |-> <<>>,
   available_plugins |-> available]

\* the JSON object returned by list_plugin_commands
ListResponse(all_commands, plugin_name, prefix) ==
  LET plugins_dict == GroupByPlugin(<<>>, Values(all_commands))
      plugin_list == Sorted(Keys(plugins_dict))
      matched_plugin == MatchPlugin(Keys(plugins_dict), Lower(plugin_name))
      commands == Get(plugins_dict, matched_plugin)
  IN IF plugin_name = <<>>
     THEN [success |-> TRUE, message |-> "plugins",
           plugins |-> plugin_list, count |-> Len(plugin_list),
           plugin |-> Absent, command_count |-> 0, commands |-> <<>>,
           available_plugins |-> <<>>]
     ELSE IF matched_plugin = Absent
     THEN ListFailure("not_found", plugin_list)
     ELSE [success |-> TRUE, message |-> "commands",
           plugins |-> <<>>, count |-> 0,
           plugin |-> matched_plugin, command_count |-> Len(commands),
           commands |-> [i \in 1..Len(commands) |->
                           [command |->
                              ReplacePrefix(commands[i].command, prefix),
                            description |-> commands[i].description,
                            aliases |->
                              [j \in 1..Len(commands[i].aliases) |->
                                 ReplacePrefix(commands[i].aliases[j],
                                               prefix)]]],
           available_plugins |-> <<>>]

PluginFilters == { <<>>, <<"P">> }

\* the tool list_plugin_commands
ListPluginCommands ==
  \E plugin_name \in PluginFilters :
  \E g \in Outcomes(command_cache, last_star_count, all_stars,
                    star_handlers_registry) :
       /\ Publish(g)
       /\ Reached("list_plugin_commands", plugin_name, 0, 1, g, g, FALSE,
                  <<>>,
                  IF g.raised THEN ListFailure("error", <<>>)
                  ELSE ListResponse(g.ret, plugin_name, command_prefix))
       /\ UNCHANGED <<all_stars, star_handlers_registry, command_prefix>>

\* ------------------------------------------------------------------------
\* Specifications
\* ------------------------------------------------------------------------
Next ==
  \/ Load
  \/ Unload
  \/ SearchCommand
  \/ GetCommandDetail
  \/ ListPluginCommands
  \/ RefreshCache

\* plugins come and go while the tools and the refresh command are used
Spec == Init /\ [][Next]_vars

NextSearch == ApplySearch

\* searches over the index of any registry
SpecSearch == InitSearch /\ [][NextSearch]_vars

\* ------------------------------------------------------------------------
\* The tools applied to the index of any registry
\* ------------------------------------------------------------------------
\* the plugins of the tool specification: a fifth plugin carries the
\* display name of the first
ToolStars ==
  Stars \o << [name |-> <<"p","x">>, module_path |-> "m4"] >>

\* a registry with more real commands in one plugin than get_command_detail
\* recommends, and with two plugins of one display name
WideRegistry ==
  << Handler("m1", <<>>, <<CommandFilter(<<"a">>, << <<"b">> >>)>>),
     Handler("m1", <<"d">>, <<CommandFilter(<<"c">>, <<>>)>>),
     Handler("m1", <<>>, <<CommandGroupFilter(<<"d">>)>>),
     Handler("m1", <<>>, <<CommandFilter(<<"e">>, << <<"f">> >>)>>),
     Handler("m1", <<>>, <<CommandFilter(<<"g">>, <<>>)>>),
     Handler("m2", <<"x">>, <<CommandFilter(<<"h">>, <<>>)>>),
     Handler("m4", <<>>, <<CommandFilter(<<"i">>, <<>>)>>) >>

ToolRegistries == Registries(MaxHandlers) \cup { WideRegistry }

\* the values of command_name given to get_command_detail
DetailNames ==
  { <<"b">>, <<"/","b">>, <<"a">>, <<" ","a">>, <<"A">>, <<"/","e">>,
    <<"q">> }

\* the values of plugin_name given to list_plugin_commands
ListFilters == { <<>>, <<"p">>, <<"P">>, <<"y">>, <<"q">> }

\* every plugin activated, any registry, any display prefix
InitTools ==
  /\ InitPlugin
  /\ all_stars = [i \in 1..Len(ToolStars) |->
                    [name |-> ToolStars[i].name,
                     module_path |-> ToolStars[i].module_path,
                     activated |-> TRUE]]
  /\ star_handlers_registry \in ToolRegistries
  /\ command_prefix \in Prefixes

\* get_command_detail applied to the index of the registry; the search for
\* suggestions is given the name after its normalisation (lines 376-384)
ApplyDetail ==
  \E name \in DetailNames :
    LET all_commands == BuildCommandsDict(Activated(all_stars),
                                          star_handlers_registry)
        command_name == EnsureSlash(name)
        present == HasKey(all_commands, command_name)
        similar == IF present THEN <<>>
                   ELSE SearchIn(all_commands, command_name, SuggestionLimit)
    IN /\ op.kind = "none"
       /\ op' = [NoOp EXCEPT !.kind = "detail", !.arg = name,
                             !.limit = SuggestionLimit,
                             !.all_commands = all_commands,
                             !.found = similar,
                             !.response =
                               IF present
                               THEN DetailResponse(all_commands, command_name,
                                                   command_prefix)
                               ELSE NotFoundResponse(similar)]
       /\ UNCHANGED <<all_stars, star_handlers_registry, command_prefix,
                      command_cache, last_star_count, built_count,
                      last_query, threads>>

\* list_plugin_commands applied to the index of the registry
ApplyList ==
  \E plugin_name \in ListFilters :
    LET all_commands == BuildCommandsDict(Activated(all_stars),
                                          star_handlers_registry)
    IN /\ op.kind = "none"
       /\ op' = [NoOp EXCEPT !.kind = "list", !.arg = plugin_name,
                             !.all_commands = all_commands,
                             !.response = ListResponse(all_commands,
                                                       plugin_name,
                                                       command_prefix)]
       /\ UNCHANGED <<all_stars, star_handlers_registry, command_prefix,
                      command_cache, last_star_count, built_count,
                      last_query, threads>>

NextTools ==
  \/ ApplySearch
  \/ ApplyDetail
  \/ ApplyList

\* one call of a tool on the index of any registry
SpecTools == InitTools /\ [][NextTools]_vars

\* ------------------------------------------------------------------------
\* The operations run on several threads
\* ------------------------------------------------------------------------
\* The class has no lock: when the host calls the tools from several
\* threads, the statements of _should_refresh_cache, _get_all_commands and
\* refresh_cache interleave.  Each thread runs one operation; the fields of
\* a thread are its position, the locals current_count, all_stars and
\* commands_dict, and the value _get_all_commands returned to it.
ThreadIds == 1..MaxThreads

IdleThread ==
  [kind |-> "none", pc |-> "idle", after_change |-> FALSE,
   current_count |-> 0, all_stars |-> <<>>, commands_dict |-> <<>>,
   returned |-> FALSE, ret |-> None]

\* the activations of the plugins of the cache specification
StarConfigs ==
  { [i \in 1..Len(MainStars) |->
       [name |-> MainStars[i].name,
        module_path |-> MainStars[i].module_path,
        activated |-> act[i]]] :
    act \in [1..Len(MainStars) -> BOOLEAN] }

\* the plugin after two queries in a row: the index of the activated
\* plugins is cached and _last_star_count is their number
InitConc ==
  /\ all_stars \in { st \in StarConfigs : ActivatedCount(st) > 0 }
  /\ star_handlers_registry = MainRegistry
  /\ command_prefix = <<"~">>
  /\ command_cache = Some(BuildCommandsDict(Activated(all_stars),
                                            star_handlers_registry))
  /\ last_star_count = ActivatedCount(all_stars)
  /\ built_count = ActivatedCount(all_stars)
  /\ last_query = [kind |-> "query", stars |-> all_stars]
  /\ op = [NoOp EXCEPT !.kind = "threads"]
  /\ threads = [t \in ThreadIds |-> IdleThread]

\* op counts, in the concurrent specification, the changes of the plugins
\* (calls) and the rebuilds begun (limit)
Changed == op.calls > 0

Rebuilds == op.limit

Shared == <<all_stars, star_handlers_registry, command_prefix,
            built_count, last_query>>

\* the host loads or unloads one plugin, at most MaxChanges times
Change ==
  /\ op.calls < MaxChanges
  /\ \E i \in 1..Len(all_stars) :
       all_stars' = [all_stars EXCEPT ![i].activated = ~all_stars[i].activated]
  /\ op' = [op EXCEPT !.calls = op.calls + 1]
  /\ UNCHANGED <<star_handlers_registry, command_prefix, command_cache,
                 last_star_count, built_count, last_query, threads>>

\* a tool or refresh_cache is called on thread t
Begin ==
  \E t \in ThreadIds, kind \in {"query", "refresh"} :
    /\ threads[t].pc = "idle"
    /\ threads' = [threads EXCEPT ![t].kind = kind,
                     ![t].after_change = Changed,
                     ![t].pc = IF kind = "query" THEN "test" ELSE "r_clear"]
    /\ UNCHANGED <<Shared, command_cache, last_star_count, op>>

\* refresh_cache, line 674: self._command_cache = None
RefreshClear ==
  \E t \in ThreadIds :
    /\ threads[t].pc = "r_clear"
    /\ command_cache' = None
    /\ threads' = [threads EXCEPT ![t].pc = "r_reset"]
    /\ UNCHANGED <<Shared, last_star_count, op>>

\* refresh_cache, line 675: self._last_star_count = 0, then line 677
RefreshReset ==
  \E t \in ThreadIds :
    /\ threads[t].pc = "r_reset"
    /\ last_star_count' = 0
    /\ threads' = [threads EXCEPT ![t].pc = "test"]
    /\ UNCHANGED <<Shared, command_cache, op>>

\* line 117, left operand: self._command_cache is not None
TestCache ==
  \E t \in ThreadIds :
    /\ threads[t].pc = "test"
    /\ threads' = [threads EXCEPT ![t].pc = IF command_cache # None
                                            THEN "check" ELSE "clear"]
    /\ UNCHANGED <<Shared, command_cache, last_star_count, op>>

\* lines 88-89: current_count = number of activated plugins
ReadCount ==
  \E t \in ThreadIds :
    /\ threads[t].pc = "check"
    /\ threads' = [threads EXCEPT ![t].current_count =
                                    ActivatedCount(all_stars),
                                  ![t].pc = "compare"]
    /\ UNCHANGED <<Shared, command_cache, last_star_count, op>>

\* line 92: if current_count != self._last_star_count
CompareCount ==
  \E t \in ThreadIds :
    /\ threads[t].pc = "compare"
    /\ threads' = [threads EXCEPT ![t].pc =
                     IF threads[t].current_count # last_star_count
                     THEN "set_last" ELSE "return_cache"]
    /\ UNCHANGED <<Shared, command_cache, last_star_count, op>>

\* line 94: self._last_star_count = current_count, then return True
SetLastCount ==
  \E t \in ThreadIds :
    /\ threads[t].pc = "set_last"
    /\ last_star_count' = threads[t].current_count
    /\ threads' = [threads EXCEPT ![t].pc = "clear"]
    /\ UNCHANGED <<Shared, command_cache, op>>

\* line 118: return self._command_cache, read again at this moment
ReturnCache ==
  \E t \in ThreadIds :
    /\ threads[t].pc = "return_cache"
    /\ threads' = [threads EXCEPT ![t].pc = "done", ![t].returned = TRUE,
                                  ![t].ret = command_cache]
    /\ UNCHANGED <<Shared, command_cache, last_star_count, op>>

\* line 124: self._command_cache = None; the rebuild begins
ClearCache ==
  \E t \in ThreadIds :
    /\ threads[t].pc = "clear"
    /\ command_cache' = None
    /\ op' = [op EXCEPT !.limit = op.limit + 1]
    /\ threads' = [threads EXCEPT ![t].pc = "list"]
    /\ UNCHANGED <<Shared, last_star_count>>

\* lines 130-138: the activated plugins; none gives return {}
ListStars ==
  \E t \in ThreadIds :
    /\ threads[t].pc = "list"
    /\ threads' =
         IF Activated(all_stars) = <<>>
         THEN [threads EXCEPT ![t].pc = "done", ![t].returned = TRUE,
                              ![t].ret = Some(<<>>)]
         ELSE [threads EXCEPT ![t].pc = "build",
                              ![t].all_stars = Activated(all_stars)]
    /\ UNCHANGED <<Shared, command_cache, last_star_count, op>>

\* lines 141-203: commands_dict, a local of the call, is filled
BuildLocal ==
  \E t \in ThreadIds :
    /\ threads[t].pc = "build"
    /\ threads' = [threads EXCEPT ![t].pc = "store",
                     ![t].commands_dict =
                       BuildCommandsDict(threads[t].all_stars,
                                         star_handlers_registry)]
    /\ UNCHANGED <<Shared, command_cache, last_star_count, op>>

\* lines 205-207: self._command_cache = commands_dict; return commands_dict
StoreCache ==
  \E t \in ThreadIds :
    /\ threads[t].pc = "store"
    /\ command_cache' = Some(threads[t].commands_dict)
    /\ threads' = [threads EXCEPT ![t].pc = "done", ![t].returned = TRUE,
                                  ![t].ret = Some(threads[t].commands_dict)]
    /\ UNCHANGED <<Shared, last_star_count, op>>

NextConc ==
  \/ Change
  \/ Begin
  \/ RefreshClear
  \/ RefreshReset
  \/ TestCache
  \/ ReadCount
  \/ CompareCount
  \/ SetLastCount
  \/ ReturnCache
  \/ ClearCache
  \/ ListStars
  \/ BuildLocal
  \/ StoreCache

\* the operations of several threads, interleaved statement by statement
SpecConc == InitConc /\ [][NextConc]_vars

\* ------------------------------------------------------------------------
\* The builder applied to any plugins and any registry
\* ------------------------------------------------------------------------
\* a registry with handlers of a plugin on the deny list, of the empty
\* module path and of a module path no plugin has
MixedRegistry ==
  << Handler("m1", <<>>, <<CommandFilter(<<"a">>, << <<"/","b">> >>)>>),
     Handler("m3", <<>>, <<CommandFilter(<<"z">>, << <<"/","y">> >>)>>),
     Handler("", <<>>, <<CommandFilter(<<"j">>, <<>>)>>),
     Handler("m2", <<>>, <<CommandGroupFilter(<<"c">>)>>),
     Handler("m9", <<>>, <<CommandFilter(<<"k">>, <<>>)>>) >>

BuildRegistries == Registries(MaxHandlers) \cup { WideRegistry, MixedRegistry }

\* any activation of the plugins, any registry
InitBuild ==
  /\ InitPlugin
  /\ all_stars \in { [i \in 1..Len(ToolStars) |->
                        [name |-> ToolStars[i].name,
                         module_path |-> ToolStars[i].module_path,
                         activated |-> act[i]]] :
                     act \in [1..Len(ToolStars) -> BOOLEAN] }
  /\ star_handlers_registry \in BuildRegistries
  /\ command_prefix = <<"/">>

\* lines 126-207: the index built from the activated plugins
ApplyBuild ==
  /\ op.kind = "none"
  /\ op' = [NoOp EXCEPT !.kind = "build",
                        !.all_commands =
                          BuildCommandsDict(Activated(all_stars),
                                            star_handlers_registry)]
  /\ UNCHANGED <<all_stars, star_handlers_registry, command_prefix,
                 command_cache, last_star_count, built_count, last_query,
                 threads>>

NextBuild == ApplyBuild

\* one build of the index
SpecBuild == InitBuild /\ [][NextBuild]_vars

\* ------------------------------------------------------------------------
\* Properties of the cache
\* ------------------------------------------------------------------------
QueryKinds == { "search_command", "get_command_detail", "list_plugin_commands" }

\* the step is a query that reached _get_all_commands
QueryStep ==
  /\ all_stars' = all_stars
  /\ op'.kind \in QueryKinds
  /\ op'.calls > 0

\* C1: a query that follows a query, with no refresh in between and with
\* the same number of activated plugins, reuses the cached index: it does
\* not scan the handler registry again (an index being cached).
C1_ReuseOnUnchangedCount ==
  [][ (/\ QueryStep
       /\ last_query.kind = "query"
       /\ ActivatedCount(last_query.stars) = ActivatedCount(all_stars)
       /\ command_cache # None)
      => ~op'.scanned ]_vars

\* C2: the first query after refresh_cache enters the rebuild, whatever the
\* number of activated plugins (the listing of the plugins succeeding).
C2_RebuildAfterInvalidate ==
  [][ (/\ QueryStep
       /\ last_query.kind = "refresh"
       /\ ~op'.check_failed)
      => op'.rebuilt ]_vars

C4_CacheCountUnit ==
  command_cache # None => last_star_count = built_count

\* C5: a query whose rebuild does not run to its end (the listing fails or
\* the scan of the handlers raises) leaves the cached index as it was.
C5_FailedRebuildKeepsCache ==
  [][ (QueryStep /\ op'.calls = 1 /\ op'.incomplete)
      => command_cache' = command_cache ]_vars

\* ------------------------------------------------------------------------
\* Properties of the search
\* ------------------------------------------------------------------------
\* the last operation is a search of op.all_commands for op.arg
Searched == op.kind = "search_similar"

\* the keyword as the search compares it
Kw == NormalizeKeyword(op.arg)

\* the records of the searched index, in index order
Records == Values(op.all_commands)

\* the position of a record in the index
Pos(r) == CHOOSE i \in 1..Len(Records) : Records[i] = r

NameHit(r) == Contains(Lower(r.command), Kw)

DescHit(r) == Contains(Lower(r.description), Kw)

PluginHit(r) == Contains(Lower(r.plugin), Kw)

\* the tier that admits a record: 1 exact, 2 name, 3 description, 4 plugin
TierOf(r) ==
  IF r.command = <<"/">> \o Kw THEN 1
  ELSE IF NameHit(r) THEN 2
  ELSE IF DescHit(r) THEN 3
  ELSE IF PluginHit(r) THEN 4
  ELSE 5

\* r comes before s in the order of the tiers, then of the index
Before(r, s) ==
  \/ TierOf(r) < TierOf(s)
  \/ TierOf(r) = TierOf(s) /\ Pos(r) < Pos(s)

Min(a, b) == IF a < b THEN a ELSE b

\* C6: when the index holds a record named "/" + keyword, compared without
\* regard to case, the search returns such a record first.
C6_ExactMatchFirst ==
  (/\ Searched
   /\ \E i \in 1..Len(Records) :
        Lower(Records[i].command) = <<"/">> \o Kw)
  => /\ op.found # <<>>
     /\ Lower(op.found[1].command) = <<"/">> \o Kw

\* C7: a search returns at most limit records, and search_command, with
\* limit 5, returns at most 5 results.
C7_LimitBound ==
  Searched =>
    /\ Len(op.found) <= op.limit
    /\ op.limit = SearchCommandLimit => Len(op.response.results) <= 5

\* C7 witness: more records match by name than the limit allows and the
\* search has returned exactly limit of them.
C7_Witness ==
  /\ Searched
  /\ Cardinality({ i \in 1..Len(Records) : NameHit(Records[i]) }) > op.limit
  /\ Len(op.found) = op.limit

\* C8: the result is the start of the sequence made of the exact match, the
\* other name matches, the description-only matches and the plugin-only
\* matches, each tier in index order: it holds no record twice, it is in
\* that order, and a matching record is left out only when limit records
\* that come before it fill the result.
C8_TierOrder ==
  Searched =>
    /\ \A i \in 1..Len(op.found) :
         /\ InList(Records, op.found[i])
         /\ TierOf(op.found[i]) <= 4
    /\ \A i, j \in 1..Len(op.found) :
         i < j => /\ op.found[i] # op.found[j]
                  /\ Before(op.found[i], op.found[j])
    /\ \A k \in 1..Len(Records) :
         (TierOf(Records[k]) <= 4 /\ ~InList(op.found, Records[k]))
         => /\ Len(op.found) = op.limit
            /\ \A i \in 1..Len(op.found) : Before(op.found[i], Records[k])

\* C8 witness: a result that starts with the exact match and goes on with a
\* name match and a match of a later tier.
C8_Witness ==
  /\ Searched
  /\ Len(op.found) >= 3
  /\ TierOf(op.found[1]) = 1
  /\ TierOf(op.found[2]) = 2
  /\ TierOf(op.found[Len(op.found)]) \in {3, 4}

\* the records of the plugins whose name contains the keyword
PluginMatches == SelectSeq(Records, PluginHit)

\* C9: for a keyword found in a plugin name but in no command name and no
\* description, the result is the first min(limit, n) of the n records of
\* the matching plugins, in index order; in any result, a record matched by
\* plugin name only comes after the name and description matches, and only
\* when these are fewer than limit.
C9_PluginTier ==
  Searched =>
    /\ (/\ PluginMatches # <<>>
        /\ \A k \in 1..Len(Records) :
             ~NameHit(Records[k]) /\ ~DescHit(Records[k]))
       => op.found = SubSeq(PluginMatches, 1,
                            Min(op.limit, Len(PluginMatches)))
    /\ \A j \in 1..Len(op.found) :
         TierOf(op.found[j]) = 4
         => /\ \A i \in 1..Len(op.found) :
                 TierOf(op.found[i]) < 4 => i < j
            /\ Cardinality({ k \in 1..Len(Records) :
                               TierOf(Records[k]) < 4 }) < op.limit

\* C9 witness: a keyword found in a plugin name only, with more records of
\* that plugin than the limit, and the search has returned limit of them.
C9_Witness ==
  /\ Searched
  /\ \A k \in 1..Len(Records) : ~NameHit(Records[k]) /\ ~DescHit(Records[k])
  /\ Len(PluginMatches) > op.limit
  /\ Len(op.found) = op.limit

\* C9 witness of the second part: description matches followed by a record
\* matched by plugin name only.
C9_WitnessMixed ==
  /\ Searched
  /\ Len(op.found) >= 2
  /\ TierOf(op.found[1]) = 3
  /\ TierOf(op.found[Len(op.found)]) = 4

\* ------------------------------------------------------------------------
\* Properties of the built index
\* ------------------------------------------------------------------------
\* C10: in a built index, every alias of a real record has its own record,
\* under the alias with the prefix ensured, whose is_alias_of is the name of
\* that real record; and every is_alias_of names a real record of the index.
C10_AliasSymmetry ==
  Searched =>
    LET d == op.all_commands IN
    /\ \A i \in 1..Len(d) :
         d[i].val.is_alias_of = Absent =>
           \A j \in 1..Len(d[i].val.aliases) :
             LET a == EnsureSlash(d[i].val.aliases[j]) IN
             /\ HasKey(d, a)
             /\ Get(d, a).is_alias_of = d[i].val.command
    /\ \A i \in 1..Len(d) :
         d[i].val.is_alias_of # Absent =>
           /\ HasKey(d, d[i].val.is_alias_of)
           /\ Get(d, d[i].val.is_alias_of).is_alias_of = Absent

\* ------------------------------------------------------------------------
\* Properties of the detail lookup
\* ------------------------------------------------------------------------
Detailed == op.kind = "detail"

\* the name get_command_detail looks up
Queried == EnsureSlash(op.arg)

DetailFound == Detailed /\ HasKey(op.all_commands, Queried)

\* C11: detail on the name of an alias record, given with or without the
\* leading "/", succeeds, reports the canonical name as is_alias_of, and
\* its description and plugin are those of the record the index holds
\* under the canonical name.
C11_AliasLookupCanonical ==
  (DetailFound /\ Get(op.all_commands, Queried).is_alias_of # Absent) =>
    LET rec == Get(op.all_commands, Queried) IN
      /\ op.response.success
      /\ op.response.is_alias_of =
           ReplacePrefix(rec.is_alias_of, command_prefix)
      /\ HasKey(op.all_commands, rec.is_alias_of)
      /\ op.response.description =
           Get(op.all_commands, rec.is_alias_of).description
      /\ op.response.plugin = Get(op.all_commands, rec.is_alias_of).plugin

\* the real records of the plugin of the queried record, in index order,
\* the queried record left out
Siblings ==
  SelectSeq(op.all_commands,
            LAMBDA e : /\ e.val.is_alias_of = Absent
                       /\ e.val.plugin = Get(op.all_commands, Queried).plugin
                       /\ e.key # Queried)

\* C12: detail on a name of the index returns as similar commands the
\* first three (or fewer) real records of the same plugin, in index order,
\* other than the queried one: never more than 3, no alias, not the
\* queried name.
C12_SimilarCommands ==
  DetailFound =>
    /\ op.response.similar_commands =
         [i \in 1..Min(3, Len(Siblings)) |->
            ReplacePrefix(Siblings[i].key, command_prefix)]
    /\ Len(op.response.similar_commands) <= 3

\* detail on a real command with more than three siblings, one of whose
\* aliases comes before the third sibling
C12_Witness ==
  /\ DetailFound
  /\ Len(Siblings) > 3
  /\ Len(op.response.similar_commands) = 3
  /\ \E i \in 1..Len(op.all_commands) :
       /\ op.all_commands[i].val.is_alias_of # Absent
       /\ op.all_commands[i].val.plugin = Get(op.all_commands, Queried).plugin
       /\ op.all_commands[i].key # Queried
       /\ \E j \in (i+1)..Len(op.all_commands) :
            op.all_commands[j].key = Siblings[2].key

DetailNotFound == Detailed /\ ~HasKey(op.all_commands, Queried)

\* C13: detail on a name absent from the index fails with, as suggestions,
\* the names of the records the search returns for the input as the caller
\* gave it, with limit 3, in the same order.
C13_SuggestionsOfInput ==
  DetailNotFound =>
    LET similar == SearchIn(op.all_commands, op.arg, 3) IN
      /\ ~op.response.success
      /\ op.response.suggestions =
           [i \in 1..Len(similar) |-> similar[i].command]

\* ------------------------------------------------------------------------
\* Properties of the names sent to the caller
\* ------------------------------------------------------------------------
\* the elements of a list
Range(lst) == { lst[i] : i \in 1..Len(lst) }

\* the command names of one entry of results or commands
NamesOfEntry(r) ==
  {r.command} \cup Range(r.aliases)
  \cup (IF "is_alias_of" \in DOMAIN r /\ r.is_alias_of # Absent
        THEN {r.is_alias_of} ELSE {})

\* every command name in the result of the last tool call
ReturnedNames ==
  CASE op.kind = "search_similar" ->
         UNION { NamesOfEntry(r) : r \in Range(op.response.results) }
    [] op.kind = "detail" /\ op.response.success ->
         NamesOfEntry(op.response) \cup Range(op.response.similar_commands)
    [] op.kind = "detail" /\ ~op.response.success ->
         Range(op.response.suggestions)
    [] op.kind = "list" ->
         UNION { NamesOfEntry(r) : r \in Range(op.response.commands) }
    [] OTHER -> {}

\* C14: every command name in a result of search, detail and the listing
\* of commands leaves with "/" replaced by the display prefix: the
\* suggestions of a failed detail are the display forms of the names found,
\* and with a display prefix other than "/" no returned name starts
\* with "/".
C14_DisplayPrefix ==
  /\ DetailNotFound =>
       op.response.suggestions =
         [i \in 1..Len(op.found) |->
            ReplacePrefix(op.found[i].command, command_prefix)]
  /\ command_prefix # <<"/">> =>
       \A n \in ReturnedNames : ~StartsWithSlash(n)

\* ------------------------------------------------------------------------
\* Properties of the plugin listing
\* ------------------------------------------------------------------------
Listed == op.kind = "list"

\* the records of the index without is_alias_of, in index order
RealRecords ==
  SelectSeq(Values(op.all_commands), LAMBDA r : r.is_alias_of = Absent)

\* lst is in strictly ascending order
Ascending(lst) ==
  \A i \in 1..Len(lst) : \A j \in (i+1)..Len(lst) : StrLess(lst[i], lst[j])

\* C19: the listing without a filter succeeds and returns, in ascending
\* order and without repetition, the names of the plugins that own a real
\* record of the index, with their number; on an empty index it returns
\* no plugin and the number 0.
C19_ListPlugins ==
  (Listed /\ op.arg = <<>>) =>
    /\ op.response.success
    /\ Range(op.response.plugins) = { r.plugin : r \in Range(RealRecords) }
    /\ Ascending(op.response.plugins)
    /\ op.response.count = Len(op.response.plugins)

\* two plugins listed in another order than the index holds them, one of
\* them owning several real records
C19_Witness ==
  /\ Listed /\ op.arg = <<>>
  /\ Len(op.response.plugins) = 2
  /\ RealRecords[1].plugin = op.response.plugins[2]
  /\ \E i, j \in 1..Len(RealRecords) :
       i # j /\ RealRecords[i].plugin = RealRecords[j].plugin

\* the real records of the plugins whose lower-cased name contains the
\* lower-cased filter
FilterHits ==
  SelectSeq(RealRecords, LAMBDA r : Contains(Lower(r.plugin), Lower(op.arg)))

\* the real records of the first plugin that matches the filter
Selected ==
  SelectSeq(RealRecords, LAMBDA r : r.plugin = FilterHits[1].plugin)

\* C20: the listing with a filter selects the first plugin, in the order
\* the grouping meets them, whose lower-cased name contains the lower-cased
\* filter, and returns that plugin's real records, all and only them, with
\* their number; when no plugin matches it fails with the sorted names of
\* the plugins.
C20_ListCommands ==
  (Listed /\ op.arg # <<>>) =>
    IF FilterHits = <<>>
    THEN /\ ~op.response.success
         /\ Range(op.response.available_plugins) =
              { r.plugin : r \in Range(RealRecords) }
         /\ Ascending(op.response.available_plugins)
    ELSE /\ op.response.success
         /\ op.response.plugin = FilterHits[1].plugin
         /\ op.response.command_count = Len(Selected)
         /\ op.response.commands =
              [i \in 1..Len(Selected) |->
                 [command |-> ReplacePrefix(Selected[i].command,
                                            command_prefix),
                  description |-> Selected[i].description,
                  aliases |-> [j \in 1..Len(Selected[i].aliases) |->
                                 ReplacePrefix(Selected[i].aliases[j],
                                               command_prefix)]]]

\* two plugins match the filter, the index holds an alias record, and the
\* plugin selected is the first of the two
C20_Witness ==
  /\ Listed /\ op.arg # <<>>
  /\ op.response.success
  /\ \E i \in 1..Len(FilterHits) :
       FilterHits[i].plugin # FilterHits[1].plugin
  /\ Len(RealRecords) < Len(op.all_commands)
  /\ op.response.command_count >= 1

\* no plugin matches the filter although the index has plugins
C20_WitnessNoMatch ==
  /\ Listed /\ op.arg # <<>>
  /\ ~op.response.success
  /\ Len(op.response.available_plugins) = 2

\* ------------------------------------------------------------------------
\* Properties of the failures
\* ------------------------------------------------------------------------
\* the step is a query that called _get_all_commands once
OneCallQuery == QueryStep /\ op'.calls = 1

C15_WitnessRebuild ==
  /\ op.kind \in QueryKinds /\ op.calls = 1
  /\ op.list_failed /\ op.cached
  /\ op.all_commands = <<>>
  /\ op.response.message # "error"

\* C16: no operation lets an exception reach its caller.
C16_NoFaultPropagates == ~op.raised

\* ------------------------------------------------------------------------
\* Properties of concurrent calls
\* ------------------------------------------------------------------------
\* every thread ran a query that began after the change of the plugins
QueriesAfterChange ==
  /\ threads # <<>>
  /\ Changed
  /\ \A t \in ThreadIds :
       /\ threads[t].kind = "query"
       /\ threads[t].after_change
       /\ threads[t].pc = "done"

\* C17: queries that run at the same time after one change of the number
\* of activated plugins cause one rebuild together, and each of them is
\* answered from the index of the plugins after the change.
C17_RebuildsCoalesce ==
  (QueriesAfterChange /\ ActivatedCount(all_stars) > 0) =>
    /\ Rebuilds = 1
    /\ \A t \in ThreadIds :
         threads[t].ret = Some(BuildCommandsDict(Activated(all_stars),
                                                 star_handlers_registry))

\* the indexes the builder returns for the activations of the plugins,
\* the empty index among them
CompleteIndexes ==
  { BuildCommandsDict(Activated(st), star_handlers_registry) :
      st \in StarConfigs } \cup { <<>> }

\* C18: whatever the interleaving of queries and refresh_cache, the index
\* a query is given is a complete index built from some set of activated
\* plugins, or the empty index.
C18_CompleteIndexRead ==
  threads # <<>> =>
    \A t \in ThreadIds :
      (threads[t].kind = "query" /\ threads[t].returned) =>
        /\ threads[t].ret # None
        /\ threads[t].ret[1] \in CompleteIndexes

\* ------------------------------------------------------------------------
\* Properties of the builder
\* ------------------------------------------------------------------------
\* op is an operation that called _get_all_commands once and whose call
\* built the index to its end
BuiltWhole(o) ==
  /\ o.kind \in QueryKinds \cup {"refresh_cache"}
  /\ o.calls = 1
  /\ o.rebuilt /\ ~o.incomplete /\ ~o.raised

Built == op.kind = "build"

\* C22: in every record of a built index, each entry of the alias list
\* starts with "/", and each entry of the alias list of a real record is a
\* key of the index as it stands.
C22_AliasesNormalized ==
  Built =>
    \A i \in 1..Len(op.all_commands) :
      LET r == op.all_commands[i].val IN
        \A j \in 1..Len(r.aliases) :
          /\ StartsWithSlash(r.aliases[j])
          /\ r.is_alias_of = Absent => HasKey(op.all_commands, r.aliases[j])

\* the plugins the builder keeps: activated, not on the deny list, with a
\* module path
Retained ==
  SelectSeq(all_stars,
            LAMBDA s : /\ s.activated
                       /\ s.name \notin DenyList
                       /\ s.module_path # "")

\* record r was written for handler h on behalf of plugin s
WrittenFor(r, h, s) ==
  LET found == FindCommand(h.event_filters) IN
    /\ h.handler_module_path = s.module_path
    /\ r.plugin = s.name
    /\ found.command_name # Absent
    /\ EnsureSlash(found.command_name) =
         (IF r.is_alias_of = Absent THEN r.command ELSE r.is_alias_of)
    /\ r.aliases = found.aliases

\* C23: no record of a built index is owned by a plugin on the deny list,
\* by a plugin that is not activated or by a plugin without module path:
\* every record was written for a handler whose module path is that of an
\* activated plugin the builder keeps, so the other handlers contribute
\* nothing.
C23_OnlyRetainedPlugins ==
  Built =>
    \A i \in 1..Len(op.all_commands) :
      LET r == op.all_commands[i].val IN
        /\ r.plugin \notin DenyList
        /\ \E k \in 1..Len(Retained) :
             \E n \in 1..Len(star_handlers_registry) :
               WrittenFor(r, star_handlers_registry[n], Retained[k])

\* an index with records, built while a plugin with handlers is not
\* activated and from a registry with handlers of a denied plugin, of the
\* empty module path and of an unknown module path, the denied plugin and
\* the plugin without module path being activated
C23_Witness ==
  /\ Built
  /\ op.all_commands # <<>>
  /\ star_handlers_registry = MixedRegistry
  /\ ~all_stars[1].activated
  /\ \A i \in 2..Len(all_stars) : all_stars[i].activated

====
